---- MODULE Spec2Model ----
(***************************************************************************)
(* Customer / address management UI (src/pages/CustomerDetail.tsx holds    *)
(* both the CustomerDetail and the CustomerList component).                *)
(*                                                                         *)
(* Each component keeps its own React state, created from the mock data    *)
(* when the component mounts.  Only one of the two routes is mounted at a  *)
(* time, so the variables below are the state of the mounted component.    *)
(*                                                                         *)
(* Representation:                                                         *)
(*   - free text (names, phone numbers, the search term) is a sequence of  *)
(*     one-character strings, so that toLowerCase and includes are         *)
(*     computed character by character;                                    *)
(*   - Date.now() is an integer number of milliseconds; an id made by      *)
(*     Date.now().toString() and a timestamp made by toISOString() are     *)
(*     written as the millisecond value they spell (both conversions are   *)
(*     one-to-one on the clock range);                                     *)
(*   - a nullable state cell (editingCustomer, editingAddress) is the      *)
(*     empty sequence for null and a one-element sequence otherwise;       *)
(*   - address fields other than city, state and isDefault are free text   *)
(*     that no code of the two components reads; they are not carried.     *)
(***************************************************************************)
EXTENDS Integers, Sequences, FiniteSets, TLC

VARIABLES
    screen,            \* "list" (CustomerList mounted) or "detail" (CustomerDetail mounted)
    routeId,           \* useParams().id of the detail route
    customers,         \* useState(mockCustomers) of the mounted component
    addresses,         \* useState(mockAddresses) of the mounted component
    searchTerm,        \* CustomerList
    cityFilter,        \* CustomerList
    stateFilter,       \* CustomerList
    currentPage,       \* CustomerList
    showCustomerForm,  \* both components
    editingCustomer,   \* CustomerList
    showAddressForm,   \* CustomerDetail
    editingAddress,    \* CustomerDetail
    now,               \* the wall clock read by Date.now() / new Date()
    lastOp,            \* history: the handler that ran last and its argument
    pgItems,           \* pagination arithmetic on its own: the filtered sequence
    pgPage,            \*   the requested page
    pgOut              \*   the computed [totalPages, slice]

vars == << screen, routeId, customers, addresses, searchTerm, cityFilter,
           stateFilter, currentPage, showCustomerForm, editingCustomer,
           showAddressForm, editingAddress, now, lastOp,
           pgItems, pgPage, pgOut >>

appVars == << screen, routeId, customers, addresses, searchTerm, cityFilter,
              stateFilter, currentPage, showCustomerForm, editingCustomer,
              showAddressForm, editingAddress, now, lastOp >>

pgVars == << pgItems, pgPage, pgOut >>

-----------------------------------------------------------------------------
(* Bounds *)

MaxClock == 101          \* last clock value explored
MaxNewCustomers == 2     \* created customers held by a store at one time
MaxNewAddresses == 2     \* created addresses held by a store at one time
MaxItems == 13           \* longest sequence given to the pagination arithmetic

InitialClock == 100

-----------------------------------------------------------------------------
(* JavaScript built-ins used by the components *)

Max(a, b) == IF a >= b THEN a ELSE b

Min(a, b) == IF a <= b THEN a ELSE b

\* Math.ceil(a / b) for a >= 0, b > 0
Ceil(a, b) == IF a % b = 0 THEN a \div b ELSE (a \div b) + 1

\* Array.prototype.slice(start, end) with 0-based non-negative arguments
Slice(s, start, end) ==
    LET lo == Min(start, Len(s))
        hi == Min(end, Len(s))
    IN  IF lo >= hi THEN << >> ELSE SubSeq(s, lo + 1, hi)

\* String.prototype.toLowerCase on the alphabet in use
LowerChar(ch) ==
    CASE ch = "A" -> "a"
      [] ch = "B" -> "b"
      [] OTHER -> ch

ToLowerCase(s) == [i \in DOMAIN s |-> LowerChar(s[i])]

\* String.prototype.includes
Includes(s, t) ==
    \E i \in 1..(Len(s) + 1) :
        /\ i + Len(t) - 1 <= Len(s)
        /\ SubSeq(s, i, i + Len(t) - 1) = t

Range(s) == {s[i] : i \in DOMAIN s}

\* Array.prototype.some over the elements matching a test is written inline;
\* Array.prototype.find is only used for presence.

-----------------------------------------------------------------------------
(* Mock data and form inputs *)

mockCustomers ==
    << [id |-> 1, firstName |-> <<"A", "l">>, lastName |-> <<"b">>,
        phoneNumber |-> <<"1", "2">>, createdAt |-> 10, updatedAt |-> 10],
       [id |-> 2, firstName |-> <<"B">>, lastName |-> <<"a", "l">>,
        phoneNumber |-> <<"2">>, createdAt |-> 20, updatedAt |-> 20] >>

mockAddresses ==
    << [id |-> 1, customerId |-> 1, city |-> "Pune",   state |-> "MH", isDefault |-> TRUE],
       [id |-> 2, customerId |-> 1, city |-> "Mumbai", state |-> "MH", isDefault |-> FALSE],
       [id |-> 3, customerId |-> 2, city |-> "Pune",   state |-> "MH", isDefault |-> TRUE] >>

\* a store with a second page of customers
pagingCustomers ==
    [i \in 1..7 |->
        [id |-> i, firstName |-> <<"A", "l">>,
         lastName |-> IF i <= 3 THEN <<"B">> ELSE <<"a">>,
         phoneNumber |-> <<"1", "2">>, createdAt |-> 10, updatedAt |-> 10]]

pagingAddresses ==
    << [id |-> 1, customerId |-> 1, city |-> "Pune",   state |-> "MH", isDefault |-> TRUE],
       [id |-> 2, customerId |-> 7, city |-> "Mumbai", state |-> "MH", isDefault |-> TRUE] >>

\* what CustomerForm hands to onSave: the three required text fields
CustomerFormData ==
    { [firstName |-> <<"A", "l">>, lastName |-> <<"a">>, phoneNumber |-> <<"1", "B">>] }

\* what AddressForm hands to onSave for the customer it was opened for
AddressFormData(customerId) ==
    { [customerId |-> customerId, city |-> c, state |-> "MH", isDefault |-> d] :
        c \in {"Mumbai"}, d \in BOOLEAN }

\* what the search box can hold
SearchTerms == { << >>, <<"b">> }

-----------------------------------------------------------------------------
(* CustomerList: derived values *)

itemsPerPage == 6

\* the predicate of customers.filter(...) in filteredCustomers
MatchesFilters(customer, addrs, term, city, st) ==
    LET matchesSearch ==
            \/ term = << >>
            \/ Includes(ToLowerCase(customer.firstName), ToLowerCase(term))
            \/ Includes(ToLowerCase(customer.lastName), ToLowerCase(term))
            \/ Includes(customer.phoneNumber, term)
        customerAddresses ==
            SelectSeq(addrs, LAMBDA addr : addr.customerId = customer.id)
        matchesCity ==
            \/ city = ""
            \/ city = "all"
            \/ \E i \in DOMAIN customerAddresses : customerAddresses[i].city = city
        matchesState ==
            \/ st = ""
            \/ st = "all"
            \/ \E i \in DOMAIN customerAddresses : customerAddresses[i].state = st
    IN  matchesSearch /\ matchesCity /\ matchesState

FilterCustomers(custs, addrs, term, city, st) ==
    SelectSeq(custs, LAMBDA customer : MatchesFilters(customer, addrs, term, city, st))

filteredCustomers ==
    FilterCustomers(customers, addresses, searchTerm, cityFilter, stateFilter)

TotalPages(items) == Ceil(Len(items), itemsPerPage)

\* the slice taken from the page number as if pages were counted from 0
PaginatedItems_zeroBased(items, page) ==
    Slice(items, page * itemsPerPage, (page + 1) * itemsPerPage)

PaginatedItems(items, page) ==
    Slice(items, (page - 1) * itemsPerPage, page * itemsPerPage)

totalPages == TotalPages(filteredCustomers)

paginatedCustomers == PaginatedItems(filteredCustomers, currentPage)

\* the option lists of the two filters
cities == {addresses[i].city : i \in DOMAIN addresses}

states == {addresses[i].state : i \in DOMAIN addresses}

\* the records of a collection whose id was made from the clock
NewCount(s) == Cardinality({i \in DOMAIN s : s[i].id >= InitialClock})

\* one clock read: time does not run backwards, and may or may not have advanced
ClockReads == now..MaxClock

-----------------------------------------------------------------------------
(* CustomerList: handlers *)

List_openCustomerForm ==
    /\ screen = "list"
    /\ UNCHANGED pgVars
    /\ showCustomerForm' = TRUE
    /\ lastOp' = [name |-> "openCustomerForm", id |-> 0]
    /\ UNCHANGED << screen, routeId, customers, addresses, searchTerm, cityFilter,
                    stateFilter, currentPage, editingCustomer, showAddressForm,
                    editingAddress, now >>

List_cancelCustomerForm ==
    /\ screen = "list"
    /\ UNCHANGED pgVars
    /\ showCustomerForm
    /\ showCustomerForm' = FALSE
    /\ editingCustomer' = << >>
    /\ lastOp' = [name |-> "cancelCustomerForm", id |-> 0]
    /\ UNCHANGED << screen, routeId, customers, addresses, searchTerm, cityFilter,
                    stateFilter, currentPage, showAddressForm, editingAddress, now >>

List_handleSaveCustomer(customerData) ==
    /\ screen = "list"
    /\ UNCHANGED pgVars
    /\ showCustomerForm
    /\ IF editingCustomer # << >>
       THEN \E t \in ClockReads :
              /\ customers' =
                    [i \in DOMAIN customers |->
                        IF customers[i].id = editingCustomer[1].id
                        THEN [customers[i] EXCEPT
                                !.firstName = customerData.firstName,
                                !.lastName = customerData.lastName,
                                !.phoneNumber = customerData.phoneNumber,
                                !.updatedAt = t]
                        ELSE customers[i]]
              /\ now' = t
              /\ lastOp' = [name |-> "updateCustomer", id |-> editingCustomer[1].id]
       ELSE \E t1 \in ClockReads :
              \E t2 \in t1..MaxClock :
                \E t3 \in t2..MaxClock :
                  /\ NewCount(customers) < MaxNewCustomers
                  /\ customers' =
                        << [id |-> t1,
                            firstName |-> customerData.firstName,
                            lastName |-> customerData.lastName,
                            phoneNumber |-> customerData.phoneNumber,
                            createdAt |-> t2,
                            updatedAt |-> t3] >> \o customers
                  /\ now' = t3
                  /\ lastOp' = [name |-> "createCustomer", id |-> t1]
    /\ showCustomerForm' = FALSE
    /\ editingCustomer' = << >>
    /\ UNCHANGED << screen, routeId, addresses, searchTerm, cityFilter, stateFilter,
                    currentPage, showAddressForm, editingAddress >>

List_handleEditCustomer(customer) ==
    /\ screen = "list"
    /\ UNCHANGED pgVars
    /\ editingCustomer' = << customer >>
    /\ showCustomerForm' = TRUE
    /\ lastOp' = [name |-> "editCustomer", id |-> customer.id]
    /\ UNCHANGED << screen, routeId, customers, addresses, searchTerm, cityFilter,
                    stateFilter, currentPage, showAddressForm, editingAddress, now >>

\* the same handler without the cascade to the addresses
List_handleDeleteCustomer_noCascade(customerId) ==
    /\ screen = "list"
    /\ UNCHANGED pgVars
    /\ customers' = SelectSeq(customers, LAMBDA customer : customer.id # customerId)
    /\ lastOp' = [name |-> "deleteCustomer", id |-> customerId]
    /\ UNCHANGED << screen, routeId, addresses, searchTerm, cityFilter, stateFilter,
                    currentPage, showCustomerForm, editingCustomer, showAddressForm,
                    editingAddress, now >>

\* window.confirm answered with OK; answered with Cancel the handler does nothing
List_handleDeleteCustomer(customerId) ==
    /\ screen = "list"
    /\ UNCHANGED pgVars
    /\ customers' = SelectSeq(customers, LAMBDA customer : customer.id # customerId)
    /\ addresses' = SelectSeq(addresses, LAMBDA addr : addr.customerId # customerId)
    /\ lastOp' = [name |-> "deleteCustomer", id |-> customerId]
    /\ UNCHANGED << screen, routeId, searchTerm, cityFilter, stateFilter, currentPage,
                    showCustomerForm, editingCustomer, showAddressForm,
                    editingAddress, now >>

List_handleClearFilters ==
    /\ screen = "list"
    /\ UNCHANGED pgVars
    /\ searchTerm' = << >>
    /\ cityFilter' = ""
    /\ stateFilter' = ""
    /\ currentPage' = 1
    /\ lastOp' = [name |-> "clearFilters", id |-> 0]
    /\ UNCHANGED << screen, routeId, customers, addresses, showCustomerForm,
                    editingCustomer, showAddressForm, editingAddress, now >>

\* onSearchChange={setSearchTerm}
List_setSearchTerm(term) ==
    /\ screen = "list"
    /\ UNCHANGED pgVars
    /\ term # searchTerm
    /\ searchTerm' = term
    /\ lastOp' = [name |-> "setSearchTerm", id |-> 0]
    /\ UNCHANGED << screen, routeId, customers, addresses, cityFilter, stateFilter,
                    currentPage, showCustomerForm, editingCustomer, showAddressForm,
                    editingAddress, now >>

\* onCityFilterChange={setCityFilter}
List_setCityFilter(city) ==
    /\ screen = "list"
    /\ UNCHANGED pgVars
    /\ city # cityFilter
    /\ cityFilter' = city
    /\ lastOp' = [name |-> "setCityFilter", id |-> 0]
    /\ UNCHANGED << screen, routeId, customers, addresses, searchTerm, stateFilter,
                    currentPage, showCustomerForm, editingCustomer, showAddressForm,
                    editingAddress, now >>

\* onStateFilterChange={setStateFilter}
List_setStateFilter(st) ==
    /\ screen = "list"
    /\ UNCHANGED pgVars
    /\ st # stateFilter
    /\ stateFilter' = st
    /\ lastOp' = [name |-> "setStateFilter", id |-> 0]
    /\ UNCHANGED << screen, routeId, customers, addresses, searchTerm, cityFilter,
                    currentPage, showCustomerForm, editingCustomer, showAddressForm,
                    editingAddress, now >>

\* the pagination bar is rendered when the page shown is not empty and
\* there is more than one page
PaginationShown == Len(paginatedCustomers) > 0 /\ totalPages > 1

List_previousPage ==
    /\ screen = "list"
    /\ UNCHANGED pgVars
    /\ PaginationShown
    /\ currentPage # 1
    /\ currentPage' = Max(1, currentPage - 1)
    /\ lastOp' = [name |-> "previousPage", id |-> 0]
    /\ UNCHANGED << screen, routeId, customers, addresses, searchTerm, cityFilter,
                    stateFilter, showCustomerForm, editingCustomer, showAddressForm,
                    editingAddress, now >>

List_goToPage(page) ==
    /\ screen = "list"
    /\ UNCHANGED pgVars
    /\ PaginationShown
    /\ page \in 1..totalPages
    /\ currentPage' = page
    /\ lastOp' = [name |-> "goToPage", id |-> 0]
    /\ UNCHANGED << screen, routeId, customers, addresses, searchTerm, cityFilter,
                    stateFilter, showCustomerForm, editingCustomer, showAddressForm,
                    editingAddress, now >>

List_nextPage ==
    /\ screen = "list"
    /\ UNCHANGED pgVars
    /\ PaginationShown
    /\ currentPage # totalPages
    /\ currentPage' = Min(totalPages, currentPage + 1)
    /\ lastOp' = [name |-> "nextPage", id |-> 0]
    /\ UNCHANGED << screen, routeId, customers, addresses, searchTerm, cityFilter,
                    stateFilter, showCustomerForm, editingCustomer, showAddressForm,
                    editingAddress, now >>

-----------------------------------------------------------------------------
(* CustomerDetail: derived values *)

\* customers.find(c => c.id === id) found a customer; its id is routeId
CustomerFound == \E i \in DOMAIN customers : customers[i].id = routeId

customerAddresses == SelectSeq(addresses, LAMBDA addr : addr.customerId = routeId)

\* every state cell of CustomerList as useState creates it
ListMounted ==
    /\ screen' = "list"
    /\ routeId' = 0
    /\ customers' = mockCustomers
    /\ addresses' = mockAddresses
    /\ searchTerm' = << >>
    /\ cityFilter' = ""
    /\ stateFilter' = ""
    /\ currentPage' = 1
    /\ showCustomerForm' = FALSE
    /\ editingCustomer' = << >>
    /\ showAddressForm' = FALSE
    /\ editingAddress' = << >>

\* every state cell of CustomerDetail as useState creates it
DetailMounted(id) ==
    /\ screen' = "detail"
    /\ routeId' = id
    /\ customers' = mockCustomers
    /\ addresses' = mockAddresses
    /\ searchTerm' = << >>
    /\ cityFilter' = ""
    /\ stateFilter' = ""
    /\ currentPage' = 1
    /\ showCustomerForm' = FALSE
    /\ editingCustomer' = << >>
    /\ showAddressForm' = FALSE
    /\ editingAddress' = << >>

-----------------------------------------------------------------------------
(* CustomerDetail: handlers *)

\* a customer card of the list opens the detail route of its customer
List_openDetail(id) ==
    /\ screen = "list"
    /\ UNCHANGED pgVars
    /\ DetailMounted(id)
    /\ lastOp' = [name |-> "openDetail", id |-> id]
    /\ UNCHANGED now

\* <Link to="/">
Detail_backToList ==
    /\ screen = "detail"
    /\ UNCHANGED pgVars
    /\ ListMounted
    /\ lastOp' = [name |-> "backToList", id |-> 0]
    /\ UNCHANGED now

Detail_openCustomerForm ==
    /\ screen = "detail"
    /\ UNCHANGED pgVars
    /\ CustomerFound
    /\ showCustomerForm' = TRUE
    /\ lastOp' = [name |-> "openCustomerForm", id |-> 0]
    /\ UNCHANGED << screen, routeId, customers, addresses, searchTerm, cityFilter,
                    stateFilter, currentPage, editingCustomer, showAddressForm,
                    editingAddress, now >>

Detail_cancelCustomerForm ==
    /\ screen = "detail"
    /\ UNCHANGED pgVars
    /\ CustomerFound
    /\ showCustomerForm
    /\ showCustomerForm' = FALSE
    /\ lastOp' = [name |-> "cancelCustomerForm", id |-> 0]
    /\ UNCHANGED << screen, routeId, customers, addresses, searchTerm, cityFilter,
                    stateFilter, currentPage, editingCustomer, showAddressForm,
                    editingAddress, now >>

Detail_handleUpdateCustomer(customerData) ==
    /\ screen = "detail"
    /\ UNCHANGED pgVars
    /\ CustomerFound
    /\ showCustomerForm
    /\ \E t \in ClockReads :
         /\ customers' =
               [i \in DOMAIN customers |->
                   IF customers[i].id = routeId
                   THEN [customers[i] EXCEPT
                           !.firstName = customerData.firstName,
                           !.lastName = customerData.lastName,
                           !.phoneNumber = customerData.phoneNumber,
                           !.updatedAt = t]
                   ELSE customers[i]]
         /\ now' = t
    /\ showCustomerForm' = FALSE
    /\ lastOp' = [name |-> "updateCustomer", id |-> routeId]
    /\ UNCHANGED << screen, routeId, addresses, searchTerm, cityFilter, stateFilter,
                    currentPage, editingCustomer, showAddressForm, editingAddress >>

\* window.confirm answered with OK: a toast, then navigate("/"); neither
\* setCustomers nor setAddresses is called
Detail_handleDeleteCustomer ==
    /\ screen = "detail"
    /\ UNCHANGED pgVars
    /\ CustomerFound
    /\ ListMounted
    /\ lastOp' = [name |-> "deleteCustomer", id |-> routeId]
    /\ UNCHANGED now

Detail_openAddressForm ==
    /\ screen = "detail"
    /\ UNCHANGED pgVars
    /\ CustomerFound
    /\ showAddressForm' = TRUE
    /\ lastOp' = [name |-> "openAddressForm", id |-> 0]
    /\ UNCHANGED << screen, routeId, customers, addresses, searchTerm, cityFilter,
                    stateFilter, currentPage, showCustomerForm, editingCustomer,
                    editingAddress, now >>

Detail_cancelAddressForm ==
    /\ screen = "detail"
    /\ UNCHANGED pgVars
    /\ CustomerFound
    /\ showAddressForm
    /\ showAddressForm' = FALSE
    /\ editingAddress' = << >>
    /\ lastOp' = [name |-> "cancelAddressForm", id |-> 0]
    /\ UNCHANGED << screen, routeId, customers, addresses, searchTerm, cityFilter,
                    stateFilter, currentPage, showCustomerForm, editingCustomer, now >>

Detail_handleSaveAddress(addressData) ==
    /\ screen = "detail"
    /\ UNCHANGED pgVars
    /\ CustomerFound
    /\ showAddressForm
    /\ IF editingAddress # << >>
       THEN /\ addresses' =
                  [i \in DOMAIN addresses |->
                      IF addresses[i].id = editingAddress[1].id
                      THEN [addresses[i] EXCEPT
                              !.customerId = addressData.customerId,
                              !.city = addressData.city,
                              !.state = addressData.state,
                              !.isDefault = addressData.isDefault]
                      ELSE addresses[i]]
            /\ lastOp' = [name |-> "updateAddress", id |-> editingAddress[1].id]
            /\ UNCHANGED now
       ELSE \E t \in ClockReads :
              /\ NewCount(addresses) < MaxNewAddresses
              /\ addresses' = Append(addresses,
                                     [id |-> t,
                                      customerId |-> addressData.customerId,
                                      city |-> addressData.city,
                                      state |-> addressData.state,
                                      isDefault |-> addressData.isDefault])
              /\ now' = t
              /\ lastOp' = [name |-> "createAddress", id |-> t]
    /\ showAddressForm' = FALSE
    /\ editingAddress' = << >>
    /\ UNCHANGED << screen, routeId, customers, searchTerm, cityFilter, stateFilter,
                    currentPage, showCustomerForm, editingCustomer >>

Detail_handleEditAddress(address) ==
    /\ screen = "detail"
    /\ UNCHANGED pgVars
    /\ CustomerFound
    /\ editingAddress' = << address >>
    /\ showAddressForm' = TRUE
    /\ lastOp' = [name |-> "editAddress", id |-> address.id]
    /\ UNCHANGED << screen, routeId, customers, addresses, searchTerm, cityFilter,
                    stateFilter, currentPage, showCustomerForm, editingCustomer, now >>

\* window.confirm answered with OK
Detail_handleDeleteAddress(addressId) ==
    /\ screen = "detail"
    /\ UNCHANGED pgVars
    /\ CustomerFound
    /\ addresses' = SelectSeq(addresses, LAMBDA addr : addr.id # addressId)
    /\ lastOp' = [name |-> "deleteAddress", id |-> addressId]
    /\ UNCHANGED << screen, routeId, customers, searchTerm, cityFilter, stateFilter,
                    currentPage, showCustomerForm, editingCustomer, showAddressForm,
                    editingAddress, now >>

\* the same handler sweeping the addresses of every customer
Detail_handleSetDefaultAddress_allCustomers(addressId) ==
    /\ screen = "detail"
    /\ UNCHANGED pgVars
    /\ CustomerFound
    /\ addresses' =
          [i \in DOMAIN addresses |->
              [addresses[i] EXCEPT !.isDefault = addresses[i].id = addressId]]
    /\ lastOp' = [name |-> "setDefaultAddress", id |-> addressId]
    /\ UNCHANGED << screen, routeId, customers, searchTerm, cityFilter, stateFilter,
                    currentPage, showCustomerForm, editingCustomer, showAddressForm,
                    editingAddress, now >>

Detail_handleSetDefaultAddress(addressId) ==
    /\ screen = "detail"
    /\ UNCHANGED pgVars
    /\ CustomerFound
    /\ addresses' =
          [i \in DOMAIN addresses |->
              [addresses[i] EXCEPT
                  !.isDefault = IF addresses[i].customerId = routeId
                                THEN addresses[i].id = addressId
                                ELSE addresses[i].isDefault]]
    /\ lastOp' = [name |-> "setDefaultAddress", id |-> addressId]
    /\ UNCHANGED << screen, routeId, customers, searchTerm, cityFilter, stateFilter,
                    currentPage, showCustomerForm, editingCustomer, showAddressForm,
                    editingAddress, now >>

-----------------------------------------------------------------------------
(* The application: both routes over the mock data.                         *)
(* The store never holds more than six customers here, so the pagination   *)
(* bar (rendered only when totalPages > 1) is never shown and its three    *)
(* buttons are not among the steps; SpecList below covers them.            *)

Init ==
    /\ screen = "list"
    /\ routeId = 0
    /\ customers = mockCustomers
    /\ addresses = mockAddresses
    /\ searchTerm = << >>
    /\ cityFilter = ""
    /\ stateFilter = ""
    /\ currentPage = 1
    /\ showCustomerForm = FALSE
    /\ editingCustomer = << >>
    /\ showAddressForm = FALSE
    /\ editingAddress = << >>
    /\ now = InitialClock
    /\ lastOp = [name |-> "mount", id |-> 0]
    /\ pgItems = << >>
    /\ pgPage = 1
    /\ pgOut = [totalPages |-> 0, slice |-> << >>]

\* the ids a rendered card can hand to its callbacks
IdsOf(s) == {s[i].id : i \in DOMAIN s}

Next ==
    \/ List_openCustomerForm
    \/ List_cancelCustomerForm
    \/ \E customerData \in CustomerFormData : List_handleSaveCustomer(customerData)
    \/ \E customer \in Range(paginatedCustomers) : List_handleEditCustomer(customer)
    \/ \E customerId \in IdsOf(paginatedCustomers) : List_handleDeleteCustomer(customerId)
    \/ List_handleClearFilters
    \/ \E term \in SearchTerms : List_setSearchTerm(term)
    \/ \E city \in {"all"} \cup cities : List_setCityFilter(city)
    \/ \E st \in {"all"} \cup states : List_setStateFilter(st)
    \/ \E id \in IdsOf(paginatedCustomers) : List_openDetail(id)
    \/ Detail_backToList
    \/ Detail_openCustomerForm
    \/ Detail_cancelCustomerForm
    \/ \E customerData \in CustomerFormData : Detail_handleUpdateCustomer(customerData)
    \/ Detail_handleDeleteCustomer
    \/ Detail_openAddressForm
    \/ Detail_cancelAddressForm
    \/ \E addressData \in AddressFormData(routeId) : Detail_handleSaveAddress(addressData)
    \/ \E address \in Range(customerAddresses) : Detail_handleEditAddress(address)
    \/ \E addressId \in IdsOf(customerAddresses) : Detail_handleDeleteAddress(addressId)
    \/ \E addressId \in IdsOf(customerAddresses) : Detail_handleSetDefaultAddress(addressId)

Spec == Init /\ [][Next]_vars

-----------------------------------------------------------------------------
(* The list screen on a store that has a second page: search, filters,     *)
(* pagination, creation and deletion.  The steps are those of CustomerList *)
(* that change which customers are listed or which page is shown; editing  *)
(* a customer and leaving for the detail route are steps of Spec.          *)

InitList ==
    /\ screen = "list"
    /\ routeId = 0
    /\ customers = pagingCustomers
    /\ addresses = pagingAddresses
    /\ searchTerm = << >>
    /\ cityFilter = ""
    /\ stateFilter = ""
    /\ currentPage = 1
    /\ showCustomerForm = FALSE
    /\ editingCustomer = << >>
    /\ showAddressForm = FALSE
    /\ editingAddress = << >>
    /\ now = InitialClock
    /\ lastOp = [name |-> "mount", id |-> 0]
    /\ pgItems = << >>
    /\ pgPage = 1
    /\ pgOut = [totalPages |-> 0, slice |-> << >>]

NextList ==
    \/ List_openCustomerForm
    \/ List_cancelCustomerForm
    \/ \E customerData \in CustomerFormData : List_handleSaveCustomer(customerData)
    \/ \E customerId \in IdsOf(paginatedCustomers) : List_handleDeleteCustomer(customerId)
    \/ List_handleClearFilters
    \/ \E term \in SearchTerms : List_setSearchTerm(term)
    \/ \E city \in {"all"} \cup cities : List_setCityFilter(city)
    \/ \E st \in {"all"} \cup states : List_setStateFilter(st)
    \/ List_previousPage
    \/ \E page \in 1..totalPages : List_goToPage(page)
    \/ List_nextPage

SpecList == InitList /\ [][NextList]_vars

-----------------------------------------------------------------------------
(* The pagination arithmetic of CustomerList applied to any filtered        *)
(* sequence and any page its pagination bar offers.                         *)

\* what one render computes from the filtered sequence and the current page
RenderPage(items, page) ==
    [totalPages |-> TotalPages(items), slice |-> PaginatedItems(items, page)]

ItemSeqs == UNION {[1..n -> {0, 1}] : n \in 0..MaxItems}

InitPaginate ==
    /\ screen = "list"
    /\ routeId = 0
    /\ customers = mockCustomers
    /\ addresses = mockAddresses
    /\ searchTerm = << >>
    /\ cityFilter = ""
    /\ stateFilter = ""
    /\ currentPage = 1
    /\ showCustomerForm = FALSE
    /\ editingCustomer = << >>
    /\ showAddressForm = FALSE
    /\ editingAddress = << >>
    /\ now = InitialClock
    /\ lastOp = [name |-> "mount", id |-> 0]
    /\ pgItems \in ItemSeqs
    /\ pgPage = 1
    /\ pgOut = RenderPage(pgItems, 1)

Paginate_goToPage(page) ==
    /\ pgPage' = page
    /\ pgOut' = RenderPage(pgItems, page)
    /\ UNCHANGED pgItems
    /\ UNCHANGED appVars

NextPaginate ==
    \E page \in 1..TotalPages(pgItems) : Paginate_goToPage(page)

SpecPaginate == InitPaginate /\ [][NextPaginate]_vars

-----------------------------------------------------------------------------
(* Properties *)

\* C1: after a confirmed deleteCustomer(id), from the list screen or from the
\* detail screen, no customer with that id is in the Customers collection and
\* no address with that customerId is in the Addresses collection.
C1_DeleteCustomerCascades ==
    lastOp.name = "deleteCustomer" =>
        /\ \A i \in DOMAIN customers : customers[i].id # lastOp.id
        /\ \A i \in DOMAIN addresses : addresses[i].customerId # lastOp.id

\* C2: immediately after setDefaultAddress(customerId, X) exactly one address
\* of that customer has isDefault = TRUE, and it is X.
C2_SetDefaultExactlyOne ==
    lastOp.name = "setDefaultAddress" =>
        LET defaults == {i \in DOMAIN addresses :
                            /\ addresses[i].customerId = routeId
                            /\ addresses[i].isDefault}
        IN  /\ Cardinality(defaults) = 1
            /\ \A i \in defaults : addresses[i].id = lastOp.id

\* C3: in every reachable state each customerId has at most one address with
\* isDefault = TRUE.
C3_AtMostOneDefault ==
    \A i, j \in DOMAIN addresses :
        ( /\ addresses[i].customerId = addresses[j].customerId
          /\ addresses[i].isDefault
          /\ addresses[j].isDefault ) => i = j

\* C4: in every observable state every address's customerId is the id of a
\* customer present in the same store (no orphaned address, also right after a
\* customer was removed).
C4_NoOrphanAddress ==
    \A i \in DOMAIN addresses :
        \E j \in DOMAIN customers : customers[j].id = addresses[i].customerId

\* C4 witness: the list screen has deleted a customer that owned addresses.
C4_Witness ==
    /\ screen = "list"
    /\ lastOp.name = "deleteCustomer"
    /\ Len(customers) < Len(mockCustomers)
    /\ Len(addresses) < Len(mockAddresses)
    /\ Len(addresses) > 0

\* C5: filterCustomers returns, in the original order, exactly the customers
\* for which (term empty or case-insensitively contained in firstName,
\* lastName or phoneNumber) and (city filter empty, "all" or the city of an
\* owned address) and (state filter empty, "all" or the state of an owned
\* address); with all three empty it returns the whole collection.
C5_FilterContract ==
    LET Wanted(c) ==
            /\ \/ searchTerm = << >>
               \/ Includes(ToLowerCase(c.firstName), ToLowerCase(searchTerm))
               \/ Includes(ToLowerCase(c.lastName), ToLowerCase(searchTerm))
               \/ Includes(ToLowerCase(c.phoneNumber), ToLowerCase(searchTerm))
            /\ \/ cityFilter \in {"", "all"}
               \/ \E i \in DOMAIN addresses :
                     /\ addresses[i].customerId = c.id
                     /\ addresses[i].city = cityFilter
            /\ \/ stateFilter \in {"", "all"}
               \/ \E i \in DOMAIN addresses :
                     /\ addresses[i].customerId = c.id
                     /\ addresses[i].state = stateFilter
    IN  /\ filteredCustomers = SelectSeq(customers, Wanted)
        /\ (searchTerm = << >> /\ cityFilter = "" /\ stateFilter = "")
              => filteredCustomers = customers

\* C6: whenever the search term, the city filter or the state filter is
\* changed, the current page is 1 in the resulting state.
C6_FilterChangeResetsPage ==
    lastOp.name \in {"setSearchTerm", "setCityFilter", "setStateFilter"}
        => currentPage = 1

\* C7: in every reachable state of the list screen
\* 1 <= currentPage <= max(1, totalPages), so the page shown is empty only
\* when the filtered sequence is empty.
C7_PageInRange ==
    /\ 1 <= currentPage
    /\ currentPage <= Max(1, totalPages)
    /\ (paginatedCustomers = << >>) => (filteredCustomers = << >>)

\* C8: for a filtered sequence of n items and a page p with 1 <= p <= ceil(n/6)
\* the page count is ceil(n/6), the slice shown is the items at positions
\* (p-1)*6+1 .. min(p*6, n) in order, and the slices of pages 1..ceil(n/6)
\* concatenated are the filtered sequence.
C8_PaginationContract ==
    LET n == Len(pgItems)
        pages == pgOut.totalPages
        first == (pgPage - 1) * 6 + 1
        last == IF pgPage * 6 <= n THEN pgPage * 6 ELSE n
    IN  /\ pages * 6 >= n
        /\ (pages - 1) * 6 < n \/ (pages = 0 /\ n = 0)
        /\ pgPage \in 1..pages =>
              /\ Len(pgOut.slice) = last - first + 1
              /\ \A k \in 1..Len(pgOut.slice) : pgOut.slice[k] = pgItems[first + k - 1]
        /\ \A i \in 1..n :
              LET q == ((i - 1) \div 6) + 1
                  shown == PaginatedItems(pgItems, q)
              IN  /\ q \in 1..pages
                  /\ Len(shown) >= i - (q - 1) * 6
                  /\ shown[i - (q - 1) * 6] = pgItems[i]
        /\ \A q \in 1..pages : Len(PaginatedItems(pgItems, q)) \in 1..6

\* C8 witness: thirteen items, page 3 shows the single thirteenth item.
C8_Witness ==
    /\ Len(pgItems) = 13
    /\ pgPage = 3
    /\ pgOut.totalPages = 3
    /\ pgOut.slice = << pgItems[13] >>

\* C9: a customer produced by createCustomer has createdAt = updatedAt at the
\* moment of creation, however the clock behaves between the reads, and is
\* at the front of the Customers collection.
C9_CreatedEqualsUpdated ==
    lastOp.name = "createCustomer" =>
        /\ customers # << >>
        /\ customers[1].id = lastOp.id
        /\ customers[1].createdAt = customers[1].updatedAt

\* C10: in every reachable state the customer ids of a store are pairwise
\* distinct and the address ids of a store are pairwise distinct.
C10_IdsDistinct ==
    /\ \A i, j \in DOMAIN customers : customers[i].id = customers[j].id => i = j
    /\ \A i, j \in DOMAIN addresses : addresses[i].id = addresses[j].id => i = j

\* C11: mutations are visible to every later query: a customer the list
\* screen shows (a created one included) is found by getCustomer when its
\* detail screen is opened, and once an address with city c was created for a
\* customer, filterCustomers("", c, "") on the list screen includes that
\* customer.
C11_MutationsVisible ==
    [][ /\ lastOp'.name = "openDetail" => CustomerFound'
        /\ lastOp'.name = "backToList" =>
              \A i \in DOMAIN addresses :
                 addresses[i].id >= InitialClock =>
                    \E c \in Range(FilterCustomers(customers', addresses', << >>,
                                                   addresses[i].city, "")) :
                        c.id = addresses[i].customerId ]_vars

\* C12: setDefaultAddress(customerId, addressId) changes nothing but the
\* isDefault flag of addresses owned by customerId: the Customers collection,
\* the number, order and other fields of the addresses, and the isDefault flag
\* of every other customer's addresses stay as they were.
C12_SetDefaultFrame ==
    [][ lastOp'.name = "setDefaultAddress" =>
          /\ customers' = customers
          /\ Len(addresses') = Len(addresses)
          /\ \A i \in DOMAIN addresses :
                /\ addresses'[i].id = addresses[i].id
                /\ addresses'[i].customerId = addresses[i].customerId
                /\ addresses'[i].city = addresses[i].city
                /\ addresses'[i].state = addresses[i].state
                /\ addresses[i].customerId # routeId =>
                      addresses'[i].isDefault = addresses[i].isDefault ]_vars

\* C12 witness: customer 1's default was moved to its second address while
\* customer 2 owns a default address.
C12_Witness ==
    /\ lastOp.name = "setDefaultAddress"
    /\ routeId = 1
    /\ \E i \in DOMAIN addresses :
          addresses[i].customerId = 1 /\ addresses[i].id = lastOp.id /\ addresses[i].isDefault
    /\ \E i \in DOMAIN addresses :
          addresses[i].customerId = 1 /\ addresses[i].id # lastOp.id /\ ~addresses[i].isDefault
    /\ \E i \in DOMAIN addresses :
          addresses[i].customerId = 2 /\ addresses[i].isDefault

====
